---- MODULE Spec2Model ----
(***************************************************************************)
(* Model of the record store of luppi-dev/UCS (Go): fixed-size binary      *)
(* record files with an offset index (products), a single-slot "most       *)
(* expensive product" file, the action metrics counter file, soft delete   *)
(* (RemoveProduct) and physical removal (RemoveByID), the latter also taken *)
(* step by step with a crash between two steps, and inserts in which one   *)
(* I/O step of Append fails.                                               *)
(*                                                                         *)
(* A file is a sequence of fixed-size records; the byte offset of the      *)
(* i-th record (1-based) is (i-1) * size, and a file's length in bytes is  *)
(* Len(file) * size.  Every write of the program writes one whole record   *)
(* at a position that is a multiple of the record size, so files never     *)
(* hold partial records.  log.Fatalf ends the process; the files keep what *)
(* was written before it, and a later process goes on from those files.    *)
(* Prices are taken non-negative (product prices of the imported CSV).     *)
(***************************************************************************)
EXTENDS Integers, Sequences, FiniteSets, TLC

\* Largest product ID the model lets BuildProduct assign.
MaxKey == 2

\* Largest price an inserted product carries.
MaxPrice == 2

\* Largest number of StoreActionMetrics calls in a behaviour.
MaxIncrements == 6

\* binary.Size(Product{}): uint32 + uint32 + [100]byte + float32 + bool.
PRODUCT_SIZE == 113

\* binary.Size(IndexEntry{}): uint32 + int64.
INDEX_ENTRY_SIZE == 12

\* binary.Size(ActionMetrics{}): uint8 + uint32.
ACTION_METRICS_SIZE == 5

VIEW == 1

CART == 2

REMOVE_FROM_CART == 4

PURCHASE == 8

Actions == {VIEW, CART, REMOVE_FROM_CART, PURCHASE}

Prices == 0..MaxPrice

\* The product rows the import is fed: one per price, the brand and the
\* category varying with it.
Rows ==
    {[Price |-> p,
      Brand |-> IF p % 2 = 0 THEN "acme" ELSE "bosch",
      CategoryID |-> p % 2] : p \in Prices}

Keys == 0..MaxKey

VARIABLES
    dataFile,     \* products_data.bin: sequence of Product
    indexFile,    \* products_index.bin: sequence of IndexEntry
    slotFile,     \* most_expensive_product.bin: sequence of Product
    metricsFile,  \* action_metrics.bin: sequence of ActionMetrics
    hist,         \* history: records as inserted, keys soft-deleted,
                  \* every key ever appended to the index
    calls,        \* history: StoreActionMetrics calls per action
    last,         \* the last operation, its arguments and what it returned
    tempDataFile, \* the tempFilename of RemoveByID: sequence of Product
    tempIndexFile,\* temp_index.bin: sequence of IndexEntry
    pc,           \* where a RemoveByID call taken step by step stands
    eventDataFile,     \* events_data.bin: sequence of Event
    eventIndexFile,    \* events_index.bin: sequence of IndexEntry
    categoryDataFile,  \* categorys_data.bin: sequence of Category
    categoryIndexFile, \* categorys_index.bin: sequence of IndexEntry
    importer,     \* the maps of a running ImportarCSV, and what its rows were
    writers,      \* two AddProduct calls running at once: where each stands
    coder         \* the arithmetic coder: its text and odds table

vars == <<dataFile, indexFile, slotFile, metricsFile, hist, calls, last,
          tempDataFile, tempIndexFile, pc,
          eventDataFile, eventIndexFile, categoryDataFile, categoryIndexFile,
          importer, writers, coder>>

storeVars == <<dataFile, indexFile, slotFile, hist>>

metricVars == <<metricsFile, calls>>

purgeVars == <<tempDataFile, tempIndexFile, pc>>

eventVars == <<eventDataFile, eventIndexFile>>

categoryVars == <<categoryDataFile, categoryIndexFile>>

\* What the product store's own operations never touch.
otherVars == <<eventVars, categoryVars, importer, writers, coder>>

\* No ImportarCSV is running: its maps are empty.  rows, categoryOf and
\* productOf are bookkeeping for the properties: the rows read so far, the
\* ID of the category record created for a CSV category id, and the CSV
\* product id and CSV category id of the row each product record came from.
IdleImporter ==
    [addedProducts |-> {}, addedCategorys |-> {}, addedEvents |-> {},
     rows |-> 0, categoryOf |-> <<>>, productOf |-> <<>>]

\* No concurrent AddProduct calls.
NoWriters == <<>>

\* No text is being coded.
NoCoder == [text |-> <<>>, odds |-> <<>>, intervals |-> <<>>]

\* No RemoveByID call is under way.  pre, retry and crashes are bookkeeping
\* for the properties: the files as they were before the call, whether the
\* call repeats one that a crash interrupted, and the crashes so far.
IdlePC ==
    [stage |-> "idle", key |-> 0, offset |-> 0, read |-> 0, written |-> 0,
     pre |-> [data |-> <<>>, index |-> <<>>], retry |-> FALSE, crashes |-> 0]

\* The zero value of Product (var p Product).
ZeroProduct ==
    [ID |-> 0, CategoryID |-> 0, Brand |-> "", Price |-> 0, Active |-> FALSE]

----------------------------------------------------------------------------
(* File primitives. *)

\* file.Seek(offset, io.SeekStart) followed by binary.Read of one record:
\* err when fewer than size bytes follow the offset.
ReadRecordAt(file, size, offset) ==
    IF offset >= 0 /\ offset % size = 0 /\ offset + size <= Len(file) * size
    THEN [err |-> FALSE, data |-> file[(offset \div size) + 1]]
    ELSE [err |-> TRUE, data |-> ZeroProduct]

\* file.Seek(offset, io.SeekStart) followed by binary.Write of one record:
\* overwrites the record at the offset, or extends the file at its end.
WriteRecordAt(file, size, offset, rec) ==
    LET i == (offset \div size) + 1
    IN  IF i <= Len(file) THEN [file EXCEPT ![i] = rec] ELSE Append(file, rec)

\* Mutation: the offset is taken after the write instead of before it.
AppendDataToFile_OffsetAfterWrite(file, size, data) ==
    [offset |-> (Len(file) + 1) * size, file |-> Append(file, data)]

\* AppendDataToFile: Seek(0, io.SeekEnd) gives the offset, binary.Write adds
\* the record there.
AppendDataToFile(file, size, data) ==
    [offset |-> Len(file) * size, file |-> Append(file, data)]

\* Mutation: no Seek to the end; the entry is written at the start of the
\* index file.
AppendIndexToFile_NoSeek(index, id, offset) ==
    WriteRecordAt(index, INDEX_ENTRY_SIZE, 0, [ID |-> id, Offset |-> offset])

\* AppendIndexToFile: Seek(0, io.SeekEnd), then write IndexEntry{id, offset}.
AppendIndexToFile(index, id, offset) ==
    Append(index, [ID |-> id, Offset |-> offset])

\* ReadFromDataFile: log.Fatalf when the read at the offset is short.
ReadFromDataFile(data, offset) ==
    LET r == ReadRecordAt(data, PRODUCT_SIZE, offset)
    IN  [fatal |-> r.err, data |-> r.data]

----------------------------------------------------------------------------
(* Primary index search. *)

RECURSIVE BinarySearchLoop(_, _, _, _, _)
\* The loop of BinarySearchOnDisk; reads counts the entries read, fatal is
\* the log.Fatalf on a failed read.
BinarySearchLoop(index, targetID, left, right, reads) ==
    IF left > right
    THEN [offset |-> 0, found |-> FALSE, reads |-> reads, fatal |-> FALSE]
    ELSE LET mid == (left + right) \div 2
             r == ReadRecordAt(index, INDEX_ENTRY_SIZE, mid * INDEX_ENTRY_SIZE)
             record == r.data
         IN  IF r.err
             THEN [offset |-> 0, found |-> FALSE, reads |-> reads, fatal |-> TRUE]
             ELSE IF record.ID = targetID
             THEN [offset |-> record.Offset, found |-> TRUE, reads |-> reads + 1,
                   fatal |-> FALSE]
             ELSE IF record.ID < targetID
             THEN BinarySearchLoop(index, targetID, mid + 1, right, reads + 1)
             ELSE BinarySearchLoop(index, targetID, left, mid - 1, reads + 1)

\* Mutation: the search range stops one entry short of the last one.
BinarySearchOnDisk_ShortRange(index, targetID) ==
    LET fileSize == Len(index) * INDEX_ENTRY_SIZE
    IN  BinarySearchLoop(index, targetID, 0, (fileSize \div INDEX_ENTRY_SIZE) - 2, 0)

BinarySearchOnDisk(index, targetID) ==
    LET fileSize == Len(index) * INDEX_ENTRY_SIZE
    IN  BinarySearchLoop(index, targetID, 0, (fileSize \div INDEX_ENTRY_SIZE) - 1, 0)

----------------------------------------------------------------------------
(* Secondary index: the most expensive active product. *)

\* SearchMostExpensiveProduct: reads the slot; log.Fatalf when the file
\* holds no record.
SearchMostExpensiveProduct(slot) ==
    LET r == ReadRecordAt(slot, PRODUCT_SIZE, 0)
    IN  [fatal |-> r.err, product |-> r.data]

RECURSIVE RecalculateScan(_, _, _)
\* The read loop of RecalculateMostExpensiveProduct, from record i on.
RecalculateScan(data, i, mostExpensiveProduct) ==
    IF ReadRecordAt(data, PRODUCT_SIZE, (i - 1) * PRODUCT_SIZE).err
    THEN mostExpensiveProduct
    ELSE LET product == data[i]
         IN  RecalculateScan(data, i + 1,
                 IF product.Active /\ product.Price > mostExpensiveProduct.Price
                 THEN product
                 ELSE mostExpensiveProduct)

\* RecalculateMostExpensiveProduct: writes the scan's result through the
\* caller's handle, whose position is pos.
RecalculateMostExpensiveProduct(data, slot, pos) ==
    WriteRecordAt(slot, PRODUCT_SIZE, pos, RecalculateScan(data, 1, ZeroProduct))

\* Mutation: the price comparison is reversed.
UpdateMostExpensiveProductIndex_Reversed(slot, product) ==
    IF ~product.Active
    THEN slot
    ELSE LET r == ReadRecordAt(slot, PRODUCT_SIZE, 0)
         IN  IF ~r.err
             THEN IF product.Price < r.data.Price
                  THEN WriteRecordAt(slot, PRODUCT_SIZE, 0, product)
                  ELSE slot
             ELSE WriteRecordAt(slot, PRODUCT_SIZE, 0, product)

\* Mutation: a candidate of equal price replaces the slot's record too.
UpdateMostExpensiveProductIndex_NotStrict(slot, product) ==
    IF ~product.Active
    THEN slot
    ELSE LET r == ReadRecordAt(slot, PRODUCT_SIZE, 0)
         IN  IF ~r.err
             THEN IF product.Price >= r.data.Price
                  THEN WriteRecordAt(slot, PRODUCT_SIZE, 0, product)
                  ELSE slot
             ELSE WriteRecordAt(slot, PRODUCT_SIZE, 0, product)

UpdateMostExpensiveProductIndex(slot, product) ==
    IF ~product.Active
    THEN slot
    ELSE LET r == ReadRecordAt(slot, PRODUCT_SIZE, 0)
         IN  IF ~r.err
             THEN IF product.Price > r.data.Price
                  THEN WriteRecordAt(slot, PRODUCT_SIZE, 0, product)
                  ELSE slot
             ELSE WriteRecordAt(slot, PRODUCT_SIZE, 0, product)

----------------------------------------------------------------------------
(* Insert. *)

\* Mutation: the record read is the first of the file, not the last.
ReadLastProduct_First(data) ==
    IF Len(data) * PRODUCT_SIZE = 0
    THEN [nil |-> TRUE, product |-> ZeroProduct]
    ELSE [nil |-> FALSE, product |-> ReadRecordAt(data, PRODUCT_SIZE, 0).data]

\* ReadLastProduct: nil on an empty file, else the record at
\* Seek(-recordSize, io.SeekEnd).
ReadLastProduct(data) ==
    IF Len(data) * PRODUCT_SIZE = 0
    THEN [nil |-> TRUE, product |-> ZeroProduct]
    ELSE [nil |-> FALSE,
          product |-> ReadRecordAt(data, PRODUCT_SIZE,
                                   Len(data) * PRODUCT_SIZE - PRODUCT_SIZE).data]

\* The ID BuildProduct assigns (uint32; the model stays far below 2^32).
NextProductID(data) ==
    LET lastProduct == ReadLastProduct(data)
    IN  IF lastProduct.nil THEN 0 ELSE lastProduct.product.ID + 1

BuildProduct(data, price, brand, categoryID) ==
    [ID |-> NextProductID(data), CategoryID |-> categoryID, Brand |-> brand,
     Price |-> price, Active |-> TRUE]

\* Append: the files after AppendDataToFile and AppendIndexToFile.
AppendBoth(data, index, rec, id) ==
    LET a == AppendDataToFile(data, PRODUCT_SIZE, rec)
    IN  [data |-> a.file, index |-> AppendIndexToFile(index, id, a.offset),
         offset |-> a.offset]

\* AddProduct: Append, then UpdateMostExpensiveProductIndex.
AddProductFiles(data, index, slot, product) ==
    LET a == AppendBoth(data, index, product, product.ID)
    IN  [data |-> a.data, index |-> a.index,
         slot |-> UpdateMostExpensiveProductIndex(slot, product)]

AddProduct(product) ==
    LET f == AddProductFiles(dataFile, indexFile, slotFile, product)
    IN  /\ dataFile' = f.data
        /\ indexFile' = f.index
        /\ slotFile' = f.slot
        /\ hist' = IF hist.track
                   THEN [hist EXCEPT
                            !.inserted = [k \in DOMAIN @ \cup {product.ID} |->
                                             IF k = product.ID THEN product ELSE @[k]],
                            !.removed = @ \ {product.ID},
                            !.appended = @ \cup {product.ID}]
                   ELSE hist
        /\ last' = [op |-> "insert", key |-> product.ID, err |-> "none"]
        /\ UNCHANGED <<metricVars, purgeVars, otherVars>>

\* One product row of ImportarCSV: BuildProduct, then AddProduct.
InsertRow(row) ==
    LET product == BuildProduct(dataFile, row.Price, row.Brand, row.CategoryID)
    IN  /\ product.ID <= MaxKey
        /\ AddProduct(product)

Insert == \E row \in Rows : InsertRow(row)

----------------------------------------------------------------------------
(* Insert with a failing I/O step.  A write that fails writes nothing. *)

\* The steps of Append that can fail: binary.Write and Sync of
\* AppendDataToFile, Seek and binary.Write of AppendIndexToFile.
AppendFaults == {"dataWrite", "dataSync", "indexSeek", "indexWrite"}

\* Append with one failing step: AppendDataToFile's errors end in Append's
\* log.Fatalf, AppendIndexToFile's failed Seek in its own log.Fatal, and
\* its failed binary.Write is the error Append returns.
AppendUnder(data, index, rec, id, fault) ==
    LET a == AppendDataToFile(data, PRODUCT_SIZE, rec)
    IN  IF fault = "dataWrite"
        THEN [err |-> "fatal", data |-> data, index |-> index]
        ELSE IF fault \in {"dataSync", "indexSeek"}
        THEN [err |-> "fatal", data |-> a.file, index |-> index]
        ELSE IF fault = "indexWrite"
        THEN [err |-> "error", data |-> a.file, index |-> index]
        ELSE [err |-> "none", data |-> a.file,
              index |-> AppendIndexToFile(index, id, a.offset)]

\* AddProduct with one failing step in Append: Append's return value is
\* dropped, and UpdateMostExpensiveProductIndex runs unless the process
\* has ended.
AddProductUnder(product, fault) ==
    LET a == AppendUnder(dataFile, indexFile, product, product.ID, fault)
    IN  /\ dataFile' = a.data
        /\ indexFile' = a.index
        /\ slotFile' = IF a.err = "fatal"
                       THEN slotFile
                       ELSE UpdateMostExpensiveProductIndex(slotFile, product)
        /\ last' = [op |-> "insert", key |-> product.ID, err |-> a.err,
                    fault |-> fault]
        /\ UNCHANGED <<hist, metricVars, purgeVars, otherVars>>

InsertUnderFault ==
    \E row \in Rows, fault \in AppendFaults :
        LET product == BuildProduct(dataFile, row.Price, row.Brand, row.CategoryID)
        IN  /\ product.ID <= MaxKey
            /\ AddProductUnder(product, fault)

----------------------------------------------------------------------------
(* Soft delete. *)

\* Mutation: the record is written back without seeking to its offset, at
\* the start of the data file.
RemoveProductFiles_NoSeek(data, index, slot, id) ==
    LET s == BinarySearchOnDisk(index, id)
        r == ReadFromDataFile(data, s.offset)
        product == [r.data EXCEPT !.Active = FALSE]
        written == WriteRecordAt(data, PRODUCT_SIZE, 0, product)
        m == SearchMostExpensiveProduct(slot)
    IN  IF s.fatal
        THEN [err |-> "fatal", data |-> data, slot |-> slot, recalculated |-> FALSE]
        ELSE IF ~s.found
        THEN [err |-> "notfound", data |-> data, slot |-> slot, recalculated |-> FALSE]
        ELSE IF r.fatal
        THEN [err |-> "fatal", data |-> data, slot |-> slot, recalculated |-> FALSE]
        ELSE IF ~r.data.Active
        THEN [err |-> "none", data |-> data, slot |-> slot, recalculated |-> FALSE]
        ELSE IF m.fatal
        THEN [err |-> "fatal", data |-> written, slot |-> slot, recalculated |-> FALSE]
        ELSE IF product.ID = m.product.ID
        THEN [err |-> "none", data |-> written,
              slot |-> RecalculateMostExpensiveProduct(written, slot, 0),
              recalculated |-> TRUE]
        ELSE [err |-> "none", data |-> written, slot |-> slot, recalculated |-> FALSE]

\* RemoveProduct: what it returns and the files it leaves.  err is
\* "notfound" (the error it returns), "fatal" (log.Fatalf) or "none".
RemoveProductFiles(data, index, slot, id) ==
    LET s == BinarySearchOnDisk(index, id)
        r == ReadFromDataFile(data, s.offset)
        product == [r.data EXCEPT !.Active = FALSE]
        written == WriteRecordAt(data, PRODUCT_SIZE, s.offset, product)
        m == SearchMostExpensiveProduct(slot)
    IN  IF s.fatal
        THEN [err |-> "fatal", data |-> data, slot |-> slot, recalculated |-> FALSE]
        ELSE IF ~s.found
        THEN [err |-> "notfound", data |-> data, slot |-> slot, recalculated |-> FALSE]
        ELSE IF r.fatal
        THEN [err |-> "fatal", data |-> data, slot |-> slot, recalculated |-> FALSE]
        ELSE IF ~r.data.Active
        THEN [err |-> "none", data |-> data, slot |-> slot, recalculated |-> FALSE]
        ELSE IF m.fatal
        THEN [err |-> "fatal", data |-> written, slot |-> slot, recalculated |-> FALSE]
        ELSE IF product.ID = m.product.ID
        THEN [err |-> "none", data |-> written,
              slot |-> RecalculateMostExpensiveProduct(written, slot, 0),
              recalculated |-> TRUE]
        ELSE [err |-> "none", data |-> written, slot |-> slot, recalculated |-> FALSE]

RemoveProduct(id) ==
    LET f == RemoveProductFiles(dataFile, indexFile, slotFile, id)
    IN  /\ dataFile' = f.data
        /\ slotFile' = f.slot
        /\ hist' = IF hist.track /\ f.err = "none"
                   THEN [hist EXCEPT !.removed = @ \cup {id}]
                   ELSE hist
        /\ last' = [op |-> "softDelete", key |-> id, err |-> f.err,
                    recalculated |-> f.recalculated]
        /\ UNCHANGED <<indexFile, metricVars, purgeVars, otherVars>>

SoftDelete == \E id \in Keys : RemoveProduct(id)

----------------------------------------------------------------------------
(* Physical removal. *)

RECURSIVE CopyExceptOffset(_, _, _, _, _)
\* The copy loop of RemoveProductFromDataFile from record i on: temp is the
\* temporary file so far, currentOffset the loop's running offset.
CopyExceptOffset(data, size, offsetToRemove, i, temp) ==
    IF ReadRecordAt(data, size, (i - 1) * size).err
    THEN temp
    ELSE LET currentOffset == (i - 1) * size
         IN  CopyExceptOffset(data, size, offsetToRemove, i + 1,
                 IF currentOffset # offsetToRemove THEN Append(temp, data[i]) ELSE temp)

\* RemoveProductFromDataFile: the data file after the temporary file has
\* been renamed onto it.
RemoveProductFromDataFile(data, size, offsetToRemove) ==
    CopyExceptOffset(data, size, offsetToRemove, 1, <<>>)

RECURSIVE CopyExceptID(_, _, _, _)
\* The copy loop of RemoveFromIndexFile from entry i on.
CopyExceptID(index, idToRemove, i, temp) ==
    IF ReadRecordAt(index, INDEX_ENTRY_SIZE, (i - 1) * INDEX_ENTRY_SIZE).err
    THEN temp
    ELSE CopyExceptID(index, idToRemove, i + 1,
             IF index[i].ID # idToRemove THEN Append(temp, index[i]) ELSE temp)

RemoveFromIndexFile(index, idToRemove) ==
    CopyExceptID(index, idToRemove, 1, <<>>)

\* RemoveByID: search the index, rewrite the data file without the record
\* at the offset found, rewrite the index without the key (a call that runs
\* to its end, no temporary file having been left behind before it).
RemoveByIDFiles(index, data, itemID) ==
    LET s == BinarySearchOnDisk(index, itemID)
    IN  IF s.fatal
        THEN [err |-> "fatal", data |-> data, index |-> index]
        ELSE IF ~s.found
        THEN [err |-> "notfound", data |-> data, index |-> index]
        ELSE [err |-> "none",
              data |-> RemoveProductFromDataFile(data, PRODUCT_SIZE, s.offset),
              index |-> RemoveFromIndexFile(index, itemID)]

RemoveByID(itemID) ==
    LET f == RemoveByIDFiles(indexFile, dataFile, itemID)
    IN  /\ dataFile' = f.data
        /\ indexFile' = f.index
        /\ hist' = IF hist.track /\ f.err = "none"
                   THEN [hist EXCEPT
                            !.inserted = [k \in DOMAIN @ \ {itemID} |-> @[k]],
                            !.removed = @ \ {itemID}]
                   ELSE hist
        /\ last' = [op |-> "purge", key |-> itemID, err |-> f.err]
        /\ UNCHANGED <<slotFile, metricVars, purgeVars, otherVars>>

Purge == \E id \in Keys : RemoveByID(id)

----------------------------------------------------------------------------
(* Physical removal taken step by step, and a crash of the process between  *)
(* two steps.  A file that has been removed is the empty sequence: the      *)
(* next CreateOrOpenFile creates it empty.  CreateOrOpenFile does not       *)
(* truncate: a temporary file left behind is written over from its start.   *)

\* The stages of a RemoveByID call in which no temporary file has been
\* renamed onto its original yet.
BeforeRename == {"dataCopy", "dataCopied", "dataRemoved"}

\* RemoveByID up to the call of RemoveProductFromDataFile, which opens the
\* data file and the temporary file.
PurgeSearch(itemID) ==
    LET s == BinarySearchOnDisk(indexFile, itemID)
        retry == /\ last.op = "crash"
                 /\ last.key = itemID
                 /\ last.stage \in BeforeRename
    IN  /\ pc.stage = "idle"
        /\ IF s.fatal \/ ~s.found
           THEN /\ last' = [op |-> "purge", key |-> itemID,
                            err |-> IF s.fatal THEN "fatal" ELSE "notfound"]
                /\ pc' = pc
           ELSE /\ pc' = [stage |-> "dataCopy", key |-> itemID,
                          offset |-> s.offset, read |-> 0, written |-> 0,
                          pre |-> IF retry
                                  THEN last.pre
                                  ELSE [data |-> dataFile, index |-> indexFile],
                          retry |-> retry, crashes |-> pc.crashes]
                /\ last' = last
        /\ UNCHANGED <<storeVars, metricVars, tempDataFile, tempIndexFile, otherVars>>

\* One round of the copy loop of RemoveProductFromDataFile; at the end of
\* the data file both files are closed.
PurgeCopyData ==
    LET currentOffset == pc.read * PRODUCT_SIZE
        r == ReadRecordAt(dataFile, PRODUCT_SIZE, currentOffset)
    IN  /\ pc.stage = "dataCopy"
        /\ IF r.err
           THEN /\ pc' = [pc EXCEPT !.stage = "dataCopied"]
                /\ tempDataFile' = tempDataFile
           ELSE IF currentOffset # pc.offset
           THEN /\ tempDataFile' = WriteRecordAt(tempDataFile, PRODUCT_SIZE,
                                                 pc.written * PRODUCT_SIZE, r.data)
                /\ pc' = [pc EXCEPT !.read = @ + 1, !.written = @ + 1]
           ELSE /\ tempDataFile' = tempDataFile
                /\ pc' = [pc EXCEPT !.read = @ + 1]
        /\ UNCHANGED <<storeVars, metricVars, last, tempIndexFile, otherVars>>

\* os.Remove(dataFilename).
PurgeRemoveData ==
    /\ pc.stage = "dataCopied"
    /\ dataFile' = <<>>
    /\ pc' = [pc EXCEPT !.stage = "dataRemoved"]
    /\ UNCHANGED <<indexFile, slotFile, hist, metricVars, last,
                   tempDataFile, tempIndexFile, otherVars>>

\* os.Rename(tempFilename, dataFilename); RemoveFromIndexFile then opens
\* the index file and temp_index.bin.
PurgeRenameData ==
    /\ pc.stage = "dataRemoved"
    /\ dataFile' = tempDataFile
    /\ tempDataFile' = <<>>
    /\ pc' = [pc EXCEPT !.stage = "indexCopy", !.read = 0, !.written = 0]
    /\ UNCHANGED <<indexFile, slotFile, hist, metricVars, last, tempIndexFile, otherVars>>

\* One round of the copy loop of RemoveFromIndexFile.
PurgeCopyIndex ==
    LET r == ReadRecordAt(indexFile, INDEX_ENTRY_SIZE, pc.read * INDEX_ENTRY_SIZE)
    IN  /\ pc.stage = "indexCopy"
        /\ IF r.err
           THEN /\ pc' = [pc EXCEPT !.stage = "indexCopied"]
                /\ tempIndexFile' = tempIndexFile
           ELSE IF r.data.ID # pc.key
           THEN /\ tempIndexFile' = WriteRecordAt(tempIndexFile, INDEX_ENTRY_SIZE,
                                                  pc.written * INDEX_ENTRY_SIZE, r.data)
                /\ pc' = [pc EXCEPT !.read = @ + 1, !.written = @ + 1]
           ELSE /\ tempIndexFile' = tempIndexFile
                /\ pc' = [pc EXCEPT !.read = @ + 1]
        /\ UNCHANGED <<storeVars, metricVars, last, tempDataFile, otherVars>>

\* os.Remove(indexFilename).
PurgeRemoveIndex ==
    /\ pc.stage = "indexCopied"
    /\ indexFile' = <<>>
    /\ pc' = [pc EXCEPT !.stage = "indexRemoved"]
    /\ UNCHANGED <<dataFile, slotFile, hist, metricVars, last,
                   tempDataFile, tempIndexFile, otherVars>>

\* os.Rename("temp_index.bin", indexFilename); RemoveByID returns nil.
PurgeRenameIndex ==
    /\ pc.stage = "indexRemoved"
    /\ indexFile' = tempIndexFile
    /\ tempIndexFile' = <<>>
    /\ pc' = [IdlePC EXCEPT !.crashes = pc.crashes]
    /\ last' = [op |-> "purge", key |-> pc.key, err |-> "none"]
    /\ UNCHANGED <<dataFile, slotFile, hist, metricVars, tempDataFile, otherVars>>

\* Largest number of crashes in a behaviour.
MaxCrashes == 1

\* The process ends in the middle of RemoveByID; the files stay as they are.
Crash ==
    /\ pc.stage # "idle"
    /\ pc.crashes < MaxCrashes
    /\ pc' = [IdlePC EXCEPT !.crashes = pc.crashes + 1]
    /\ last' = [op |-> "crash", key |-> pc.key, err |-> "fatal",
                stage |-> pc.stage, pre |-> pc.pre]
    /\ UNCHANGED <<storeVars, metricVars, tempDataFile, tempIndexFile, otherVars>>

----------------------------------------------------------------------------
(* Two AddProduct calls running at once, each with its own file handles and *)
(* no lock: the calls' file steps interleave.  A handle keeps its own       *)
(* position, so a write lands where that handle's Seek left it.             *)

Writers == {1, 2}

\* A call that has not started.
FreshWriter == [stage |-> "start", product |-> ZeroProduct, offset |-> 0,
                indexPos |-> 0,
                mostExpensiveProduct |-> [err |-> TRUE, data |-> ZeroProduct]]

\* Mutation: the entry's key is computed from the record's offset.
WriterEntry_KeyFromOffset(w) ==
    [ID |-> w.offset \div PRODUCT_SIZE, Offset |-> w.offset]

\* The IndexEntry{id, offset} AppendIndexToFile builds for a call.
WriterEntry(w) == [ID |-> w.product.ID, Offset |-> w.offset]

\* BuildProduct: ReadLastProduct gives the key.
WriterBuild(w) ==
    \E row \in Rows :
        /\ writers[w].stage = "start"
        /\ writers' = [writers EXCEPT ![w] =
               [@ EXCEPT !.stage = "built",
                         !.product = BuildProduct(dataFile, row.Price, row.Brand,
                                                  row.CategoryID)]]
        /\ UNCHANGED <<storeVars, metricVars, last, purgeVars, eventVars,
                       categoryVars, importer, coder>>

\* AppendDataToFile: Seek(0, io.SeekEnd).
WriterSeekData(w) ==
    /\ writers[w].stage = "built"
    /\ writers' = [writers EXCEPT ![w] =
           [@ EXCEPT !.stage = "sought",
                     !.offset = Len(dataFile) * PRODUCT_SIZE]]
    /\ UNCHANGED <<storeVars, metricVars, last, purgeVars, eventVars,
                   categoryVars, importer, coder>>

\* AppendDataToFile: binary.Write at the handle's position, Sync, Close.
WriterWriteData(w) ==
    /\ writers[w].stage = "sought"
    /\ dataFile' = WriteRecordAt(dataFile, PRODUCT_SIZE, writers[w].offset,
                                 writers[w].product)
    /\ writers' = [writers EXCEPT ![w] = [@ EXCEPT !.stage = "written"]]
    /\ UNCHANGED <<indexFile, slotFile, hist, metricVars, last, purgeVars,
                   eventVars, categoryVars, importer, coder>>

\* AppendIndexToFile: Seek(0, io.SeekEnd).
WriterSeekIndex(w) ==
    /\ writers[w].stage = "written"
    /\ writers' = [writers EXCEPT ![w] =
           [@ EXCEPT !.stage = "indexSought",
                     !.indexPos = Len(indexFile) * INDEX_ENTRY_SIZE]]
    /\ UNCHANGED <<storeVars, metricVars, last, purgeVars, eventVars,
                   categoryVars, importer, coder>>

\* AppendIndexToFile: binary.Write of the entry at the handle's position.
WriterWriteIndex(w) ==
    /\ writers[w].stage = "indexSought"
    /\ indexFile' = WriteRecordAt(indexFile, INDEX_ENTRY_SIZE, writers[w].indexPos,
                                  WriterEntry(writers[w]))
    /\ writers' = [writers EXCEPT ![w] = [@ EXCEPT !.stage = "indexed"]]
    /\ UNCHANGED <<dataFile, slotFile, hist, metricVars, last, purgeVars,
                   eventVars, categoryVars, importer, coder>>

\* UpdateMostExpensiveProductIndex: CreateOrOpenFile, and binary.Read of
\* the slot into mostExpensiveProduct.  An inactive product returns before
\* the read.
WriterReadSlot(w) ==
    /\ writers[w].stage = "indexed"
    /\ writers' = [writers EXCEPT ![w] =
           IF ~writers[w].product.Active
           THEN [@ EXCEPT !.stage = "done"]
           ELSE [@ EXCEPT !.stage = "slotRead",
                          !.mostExpensiveProduct =
                              ReadRecordAt(slotFile, PRODUCT_SIZE, 0)]]
    /\ last' = IF ~writers[w].product.Active
               THEN [op |-> "insert", key |-> writers[w].product.ID,
                     err |-> "none", writer |-> w]
               ELSE last
    /\ UNCHANGED <<storeVars, metricVars, purgeVars, eventVars,
                   categoryVars, importer, coder>>

\* UpdateMostExpensiveProductIndex after its read: Seek to the start and
\* binary.Write of the product when the read failed or the product's price
\* is greater than the price read; then AddProduct returns.
WriterUpdateSlot(w) ==
    LET r == writers[w].mostExpensiveProduct
        product == writers[w].product
    IN  /\ writers[w].stage = "slotRead"
        /\ slotFile' = IF ~r.err
                       THEN IF product.Price > r.data.Price
                            THEN WriteRecordAt(slotFile, PRODUCT_SIZE, 0, product)
                            ELSE slotFile
                       ELSE WriteRecordAt(slotFile, PRODUCT_SIZE, 0, product)
        /\ writers' = [writers EXCEPT ![w] = [@ EXCEPT !.stage = "done"]]
        /\ last' = [op |-> "insert", key |-> product.ID, err |-> "none",
                    writer |-> w]
        /\ UNCHANGED <<dataFile, indexFile, hist, metricVars, purgeVars,
                       eventVars, categoryVars, importer, coder>>

----------------------------------------------------------------------------
(* float64 arithmetic of CalcPercentage.                                    *)
(* A positive float64 is [zero |-> FALSE, exp |-> e, frac |-> f]: f holds   *)
(* the 52 fraction bits as four limbs of 13 bits, most significant first,   *)
(* and the value is (1 + f[1]/2^13 + f[2]/2^26 + f[3]/2^39 + f[4]/2^52) *   *)
(* 2^e.  Results are rounded to nearest, ties to even, as Go's float64      *)
(* operations are.  Operands are integers below 2^17, so that every         *)
(* intermediate value fits the model checker's integers.                    *)

\* 2^13, the base of a limb.
LIMB == 8192

\* Limbs of the fraction: 4 * 13 = 52 bits.
F64_LIMBS == 4

F64Zero == [zero |-> TRUE, exp |-> 0, frac |-> <<0, 0, 0, 0>>]

RECURSIVE Pow2(_)
Pow2(n) == IF n = 0 THEN 1 ELSE 2 * Pow2(n - 1)

RECURSIVE BitLen(_)
\* The number of binary digits of n.
BitLen(n) == IF n = 0 THEN 0 ELSE 1 + BitLen(n \div 2)

RECURSIVE LimbsIncrement(_)
\* frac + 1 in the last place; a carry out of the first limb leaves a
\* leading limb 1.
LimbsIncrement(frac) ==
    IF frac = <<>>
    THEN <<1>>
    ELSE IF frac[Len(frac)] < LIMB - 1
         THEN [frac EXCEPT ![Len(frac)] = @ + 1]
         ELSE Append(LimbsIncrement(SubSeq(frac, 1, Len(frac) - 1)), 0)

RECURSIVE LimbsDecrement(_)
\* frac - 1 in the last place, for frac not all zero.
LimbsDecrement(frac) ==
    IF frac[Len(frac)] > 0
    THEN [frac EXCEPT ![Len(frac)] = @ - 1]
    ELSE Append(LimbsDecrement(SubSeq(frac, 1, Len(frac) - 1)), LIMB - 1)

\* Rounding: frac are the 52 fraction bits before rounding, up tells
\* whether the discarded part rounds up.
F64Round(frac, exp, up) ==
    LET inc == LimbsIncrement(frac)
    IN  IF ~up
        THEN [zero |-> FALSE, exp |-> exp, frac |-> frac]
        ELSE IF Len(inc) > F64_LIMBS
        THEN [zero |-> FALSE, exp |-> exp + 1, frac |-> SubSeq(inc, 2, F64_LIMBS + 1)]
        ELSE [zero |-> FALSE, exp |-> exp, frac |-> inc]

RECURSIVE QuotientLimbs(_, _, _)
\* Long division in base 2^13: the next limbs of r / d (0 <= r < d), until
\* frac has four; returns them with the remainder left.
QuotientLimbs(r, d, frac) ==
    IF Len(frac) = F64_LIMBS
    THEN [frac |-> frac, rem |-> r]
    ELSE QuotientLimbs((r * LIMB) % d, d, Append(frac, (r * LIMB) \div d))

RECURSIVE F64DivScaled(_, _, _)
\* n / d for integers n, d > 0, with exp the power of two taken out so far:
\* scales until d <= n < 2d, then divides and rounds.
F64DivScaled(n, d, exp) ==
    IF n < d
    THEN F64DivScaled(2 * n, d, exp - 1)
    ELSE IF n >= 2 * d
    THEN F64DivScaled(n, 2 * d, exp + 1)
    ELSE LET q == QuotientLimbs(n - d, d, <<>>)
             up == \/ 2 * q.rem > d
                   \/ (2 * q.rem = d /\ q.frac[F64_LIMBS] % 2 = 1)
         IN  F64Round(q.frac, exp, up)

\* The float64 quotient float64(n) / float64(d) of integers n >= 0, d > 0.
F64DivNat(n, d) == IF n = 0 THEN F64Zero ELSE F64DivScaled(n, d, 0)

\* float64(n) of an unsigned integer: exact.
F64FromNat(n) == F64DivNat(n, 1)

RECURSIVE LimbsTimes(_, _, _)
\* (1.frac) * k + carry as limbs, a leading limb holding what exceeds the
\* fraction (k a positive integer below 2^17).
LimbsTimes(frac, k, carry) ==
    IF frac = <<>>
    THEN <<k + carry>>
    ELSE LET v == frac[Len(frac)] * k + carry
         IN  Append(LimbsTimes(SubSeq(frac, 1, Len(frac) - 1), k, v \div LIMB),
                    v % LIMB)

RECURSIVE LimbsShiftRight(_, _, _)
\* The limbs after the leading one, shifted right by the bits of div
\* (a power of two); rem is what the limb before left behind.
LimbsShiftRight(limbs, div, rem) ==
    IF limbs = <<>>
    THEN [frac |-> <<>>, rem |-> rem]
    ELSE LET v == rem * LIMB + limbs[1]
             rest == LimbsShiftRight(Tail(limbs), div, v % div)
         IN  [frac |-> <<v \div div>> \o rest.frac, rem |-> rest.rem]

\* The float64 product x * float64(k) of a float64 x and an integer k > 0.
F64TimesNat(x, k) ==
    IF x.zero
    THEN F64Zero
    ELSE LET product == LimbsTimes(x.frac, k, 0)
             shift == BitLen(product[1]) - 1
             div == Pow2(shift)
             s == LimbsShiftRight(Tail(product), div, product[1] % div)
             up == \/ 2 * s.rem > div
                   \/ (2 * s.rem = div /\ s.frac[F64_LIMBS] % 2 = 1)
         IN  F64Round(s.frac, x.exp + shift, up)

\* The float64 values next above and next below a positive float64.
F64Succ(x) == F64Round(x.frac, x.exp, TRUE)

F64Pred(x) ==
    IF x.frac = <<0, 0, 0, 0>>
    THEN [zero |-> FALSE, exp |-> x.exp - 1,
          frac |-> <<LIMB - 1, LIMB - 1, LIMB - 1, LIMB - 1>>]
    ELSE [x EXCEPT !.frac = LimbsDecrement(@)]

\* Mutation: no guard against a zero total; the division by zero is +Inf.
CalcPercentage_NoGuard(parte, total) ==
    IF total = 0
    THEN [zero |-> FALSE, exp |-> 1024, frac |-> <<0, 0, 0, 0>>]
    ELSE F64TimesNat(F64DivNat(parte, total), 100)

\* CalcPercentage(parte, total) on the float64 values of two counts.
CalcPercentage(parte, total) ==
    IF total = 0
    THEN F64Zero
    ELSE F64TimesNat(F64DivNat(parte, total), 100)

----------------------------------------------------------------------------
(* Action metrics. *)

ZeroActionMetrics == [Action |-> 0, NumberOfOcurrences |-> 0]

\* binary.Read of the next ActionMetrics at a byte offset.
ReadActionMetrics(file, offset) ==
    LET r == ReadRecordAt(file, ACTION_METRICS_SIZE, offset)
    IN  [err |-> r.err, data |-> IF r.err THEN ZeroActionMetrics ELSE r.data]

RECURSIVE StoreActionMetricsScan_Appends(_, _, _)
\* Mutation: a matching entry is written back without seeking to it, one
\* record further on.
StoreActionMetricsScan_Appends(file, action, pos) ==
    LET r == ReadActionMetrics(file, pos)
        next == pos + ACTION_METRICS_SIZE
    IN  IF r.err
        THEN WriteRecordAt(file, ACTION_METRICS_SIZE, pos,
                           [Action |-> action, NumberOfOcurrences |-> 1])
        ELSE IF r.data.Action = action
        THEN WriteRecordAt(file, ACTION_METRICS_SIZE, next,
                 [r.data EXCEPT !.NumberOfOcurrences = @ + 1])
        ELSE StoreActionMetricsScan_Appends(file, action, next)

RECURSIVE StoreActionMetricsScan(_, _, _)
\* The loop of StoreActionMetrics with the handle at byte pos: a read moves
\* it on by one record; a matching entry is incremented (uint32; the model
\* stays far below 2^32) and written back one record behind the handle; at
\* the end of the file the new entry is written where the handle stands.
StoreActionMetricsScan(file, action, pos) ==
    LET r == ReadActionMetrics(file, pos)
        next == pos + ACTION_METRICS_SIZE
    IN  IF r.err
        THEN WriteRecordAt(file, ACTION_METRICS_SIZE, pos,
                           [Action |-> action, NumberOfOcurrences |-> 1])
        ELSE IF r.data.Action = action
        THEN WriteRecordAt(file, ACTION_METRICS_SIZE, next - ACTION_METRICS_SIZE,
                 [r.data EXCEPT !.NumberOfOcurrences = @ + 1])
        ELSE StoreActionMetricsScan(file, action, next)

\* The metrics file after StoreActionMetrics(filename, action).
StoreActionMetricsFile(file, action) == StoreActionMetricsScan(file, action, 0)

RECURSIVE SearchActionMetricsScan(_, _, _)
\* The loop of SearchActionMetrics with the handle at byte pos.
SearchActionMetricsScan(file, action, pos) ==
    LET r == ReadActionMetrics(file, pos)
    IN  IF r.err
        THEN [Action |-> action, NumberOfOcurrences |-> 0]
        ELSE IF r.data.Action = action
        THEN r.data
        ELSE SearchActionMetricsScan(file, action, pos + ACTION_METRICS_SIZE)

\* SearchActionMetrics: os.Open fails while the file does not exist, that
\* is until the first StoreActionMetrics has written its first entry.
SearchActionMetrics(file, action) ==
    IF Len(file) = 0
    THEN [err |-> TRUE, metrics |-> ZeroActionMetrics]
    ELSE [err |-> FALSE, metrics |-> SearchActionMetricsScan(file, action, 0)]

\* CalculatePercentageOfOcurrences: both searches' errors are dropped.
CalculatePercentageOfOcurrences(file, part, total) ==
    LET partMetric == SearchActionMetrics(file, part).metrics
        totalMetric == SearchActionMetrics(file, total).metrics
    IN  CalcPercentage(partMetric.NumberOfOcurrences, totalMetric.NumberOfOcurrences)

StoreActionMetrics(action) ==
    /\ metricsFile' = StoreActionMetricsFile(metricsFile, action)
    /\ calls' = [calls EXCEPT ![action] = @ + 1]
    /\ last' = [op |-> "increment", key |-> action, err |-> "none"]
    /\ UNCHANGED <<storeVars, purgeVars, otherVars>>

RECURSIVE SumOf(_, _)
SumOf(f, S) ==
    IF S = {} THEN 0 ELSE LET x == CHOOSE y \in S : TRUE IN f[x] + SumOf(f, S \ {x})

IncrementMetric ==
    \E action \in Actions :
        /\ SumOf(calls, Actions) < MaxIncrements
        /\ StoreActionMetrics(action)

\* A call of CalculatePercentageOfOcurrences; the file is only read.
MetricRatio ==
    \E part \in Actions, total \in Actions :
        /\ last' = [op |-> "ratio", key |-> part, err |-> "none", total |-> total,
                    ret |-> CalculatePercentageOfOcurrences(metricsFile, part, total)]
        /\ UNCHANGED <<storeVars, metricVars, purgeVars, otherVars>>

----------------------------------------------------------------------------
(* Events. *)

\* binary.Size(Event{}): uint32 + [50]byte + uint32 + uint32 + uint8 +
\* [100]byte.
EVENT_SIZE == 163

\* Largest number of events appended in a behaviour.
MaxEvents == 4

\* The EVENT_TYPE column of the CSV rows.
EventNames == {"view", "cart", "remove_from_cart", "purchase", "click"}

ZeroEvent ==
    [ID |-> 0, UserSession |-> "", UserID |-> 0, ProductID |-> 0,
     EventAction |-> 0, EventTime |-> ""]

getActionFromName(actionName) ==
    CASE actionName = "cart" -> CART
      [] actionName = "remove_from_cart" -> REMOVE_FROM_CART
      [] actionName = "purchase" -> PURCHASE
      [] OTHER -> VIEW

\* ReadLastEvent: nil on an empty file, else the last record.
ReadLastEvent(data) ==
    IF Len(data) * EVENT_SIZE = 0
    THEN [nil |-> TRUE, event |-> ZeroEvent]
    ELSE [nil |-> FALSE, event |-> data[Len(data)]]

\* BuildEvent: the next ID, and the row's columns; ProductID is not set.
BuildEvent(data, userSession, userID, eventType, eventTime) ==
    LET lastEvent == ReadLastEvent(data)
    IN  [ID |-> IF lastEvent.nil THEN 0 ELSE lastEvent.event.ID + 1,
         UserSession |-> userSession,
         UserID |-> userID,
         ProductID |-> 0,
         EventAction |-> getActionFromName(eventType),
         EventTime |-> eventTime]

\* Append for records of any size: AppendDataToFile, AppendIndexToFile.
AppendRecord(data, index, size, rec, id) ==
    LET a == AppendDataToFile(data, size, rec)
    IN  [data |-> a.file, index |-> AppendIndexToFile(index, id, a.offset)]

\* Mutation: the event is appended and StoreActionMetrics is not called.
AddEvent_NoMetrics(event) ==
    LET a == AppendRecord(eventDataFile, eventIndexFile, EVENT_SIZE, event, event.ID)
    IN  /\ eventDataFile' = a.data
        /\ eventIndexFile' = a.index
        /\ metricsFile' = metricsFile
        /\ calls' = calls
        /\ last' = [op |-> "addEvent", key |-> event.ID, err |-> "none"]
        /\ UNCHANGED <<storeVars, purgeVars, categoryVars, importer, writers, coder>>

\* AddEvent: Append, then StoreActionMetrics.
AddEvent(event) ==
    LET a == AppendRecord(eventDataFile, eventIndexFile, EVENT_SIZE, event, event.ID)
    IN  /\ eventDataFile' = a.data
        /\ eventIndexFile' = a.index
        /\ metricsFile' = StoreActionMetricsFile(metricsFile, event.EventAction)
        /\ calls' = [calls EXCEPT ![event.EventAction] = @ + 1]
        /\ last' = [op |-> "addEvent", key |-> event.ID, err |-> "none"]
        /\ UNCHANGED <<storeVars, purgeVars, categoryVars, importer, writers, coder>>

\* One event of the CSV: BuildEvent, then AddEvent.
InsertEvent ==
    \E eventType \in EventNames :
        /\ Len(eventDataFile) < MaxEvents
        /\ AddEvent(BuildEvent(eventDataFile, "session", 1, eventType, "time"))

----------------------------------------------------------------------------
(* ImportarCSV. *)

\* binary.Size(Category{}): uint32 + [100]byte.
CATEGORY_SIZE == 104

\* Largest number of CSV rows read in a behaviour.
MaxRows == 3

\* The CSV rows: category id and code, product id, price and brand, the
\* session and the type of the event.
CsvRows ==
    {[CategoryID |-> c,
      CategoryCode |-> IF c = 7 THEN "audio" ELSE "video",
      ProductID |-> p,
      Price |-> p % (MaxPrice + 1),
      Brand |-> IF p % 2 = 0 THEN "acme" ELSE "bosch",
      UserID |-> 1,
      UserSession |-> u,
      EventType |-> t,
      EventTime |-> "time"] :
        c \in {7, 8}, p \in {1, 2, 3}, u \in {"s1", "s2"}, t \in {"view", "cart"}}

ZeroCategory == [ID |-> 0, Name |-> ""]

\* ReadLastCategory: nil on an empty file, else the last record.
ReadLastCategory(data) ==
    IF Len(data) * CATEGORY_SIZE = 0
    THEN [nil |-> TRUE, category |-> ZeroCategory]
    ELSE [nil |-> FALSE, category |-> data[Len(data)]]

BuildCategory(data, categoryCode) ==
    LET lastCategory == ReadLastCategory(data)
    IN  [ID |-> IF lastCategory.nil THEN 0 ELSE lastCategory.category.ID + 1,
         Name |-> categoryCode]

\* One iteration of the loop of ImportarCSV.  `category` is declared in
\* the iteration and assigned only when the CSV category id is new; the
\* product is built from it either way.  addedProducts, addedCategorys
\* and addedEvents are the key sets of the three maps.  categoryOf and
\* productOf record what the iteration did: the ID of the category record
\* appended for a CSV category id, and the ID of the product record
\* appended for a CSV product id with the CSV category id of its row.
ImportRow(row) ==
    LET categoryExists == row.CategoryID \in importer.addedCategorys
        category == IF categoryExists
                    THEN ZeroCategory
                    ELSE BuildCategory(categoryDataFile, row.CategoryCode)
        categorys == IF categoryExists
                     THEN [data |-> categoryDataFile, index |-> categoryIndexFile]
                     ELSE AppendRecord(categoryDataFile, categoryIndexFile,
                                       CATEGORY_SIZE, category, category.ID)
        productExists == row.ProductID \in importer.addedProducts
        product == BuildProduct(dataFile, row.Price, row.Brand, category.ID)
        products == IF productExists
                    THEN [data |-> dataFile, index |-> indexFile, slot |-> slotFile]
                    ELSE AddProductFiles(dataFile, indexFile, slotFile, product)
        eventExists == row.UserSession \in importer.addedEvents
        event == BuildEvent(eventDataFile, row.UserSession, row.UserID,
                            row.EventType, row.EventTime)
        events == IF eventExists
                  THEN [data |-> eventDataFile, index |-> eventIndexFile]
                  ELSE AppendRecord(eventDataFile, eventIndexFile, EVENT_SIZE,
                                    event, event.ID)
    IN  /\ importer.rows < MaxRows
        /\ categoryDataFile' = categorys.data
        /\ categoryIndexFile' = categorys.index
        /\ dataFile' = products.data
        /\ indexFile' = products.index
        /\ slotFile' = products.slot
        /\ eventDataFile' = events.data
        /\ eventIndexFile' = events.index
        /\ metricsFile' = IF eventExists
                          THEN metricsFile
                          ELSE StoreActionMetricsFile(metricsFile, event.EventAction)
        /\ calls' = IF eventExists
                    THEN calls
                    ELSE [calls EXCEPT ![event.EventAction] = @ + 1]
        /\ importer' =
               [addedCategorys |-> importer.addedCategorys \cup {row.CategoryID},
                addedProducts |-> importer.addedProducts \cup {row.ProductID},
                addedEvents |-> importer.addedEvents \cup {row.UserSession},
                rows |-> importer.rows + 1,
                categoryOf |->
                    IF categoryExists
                    THEN importer.categoryOf
                    ELSE [c \in DOMAIN importer.categoryOf \cup {row.CategoryID} |->
                             IF c = row.CategoryID
                             THEN category.ID
                             ELSE importer.categoryOf[c]],
                productOf |->
                    IF productExists
                    THEN importer.productOf
                    ELSE [q \in DOMAIN importer.productOf \cup {row.ProductID} |->
                             IF q = row.ProductID
                             THEN [ID |-> product.ID, category |-> row.CategoryID]
                             ELSE importer.productOf[q]]]
        /\ last' = [op |-> "import", key |-> row.ProductID, err |-> "none"]
        /\ UNCHANGED <<hist, purgeVars, writers, coder>>

\* csvReader.Read returns the next row.
ReadRow == \E row \in CsvRows : ImportRow(row)

----------------------------------------------------------------------------
(* The arithmetic coder. *)

\* Longest text encoded.
MaxTextLen == 4

\* The characters of the texts.
Chars == {"a", "b", "c"}

\* The texts read from myText.txt: their lengths divide MaxTextLen, so
\* every odd freq/total and every sum of odds is a multiple of
\* 1/MaxTextLen.  A float64 is written as its multiple of 1/MaxTextLen:
\* FloatOne is 1.0.
FloatOne == MaxTextLen

Texts ==
    UNION {[1..n -> Chars] : n \in {m \in 1..MaxTextLen : MaxTextLen % m = 0}}

\* CalcCharsOdds: the frequency of every character of the text over the
\* length of the text.
CalcCharsOdds(text) ==
    [char \in {text[i] : i \in 1..Len(text)} |->
        (Cardinality({i \in 1..Len(text) : text[i] = char}) * FloatOne)
            \div Len(text)]

\* The orders in which `range odds` can enumerate the entries of the map:
\* Go leaves the iteration order of a map unspecified.
RangeOrders(odds) ==
    {order \in [1..Cardinality(DOMAIN odds) -> DOMAIN odds] :
        \A char \in DOMAIN odds : \E i \in DOMAIN order : order[i] = char}

RECURSIVE CalcIntervalFrom(_, _, _, _, _)
\* The loop of CalcInterval from the i-th entry enumerated on.
CalcIntervalFrom(odds, order, targetChar, i, low) ==
    IF i > Len(order)
    THEN <<0, 0>>
    ELSE IF order[i] = targetChar
         THEN <<low, low + odds[order[i]]>>
         ELSE CalcIntervalFrom(odds, order, targetChar, i + 1,
                               low + odds[order[i]])

\* CalcInterval, the entries enumerated in `order`.
CalcInterval(odds, order, targetChar) ==
    CalcIntervalFrom(odds, order, targetChar, 1, 0)

\* main: the text is read and its odds table computed.
ReadText ==
    /\ coder.text = <<>>
    /\ \E text \in Texts :
           coder' = [text |-> text,
                     odds |-> CalcCharsOdds(text),
                     intervals |-> [char \in DOMAIN CalcCharsOdds(text) |-> {}]]
    /\ last' = [op |-> "readText", key |-> 0, err |-> "none"]
    /\ UNCHANGED <<storeVars, metricVars, purgeVars, eventVars, categoryVars,
                   importer, writers>>

\* One call of CalcInterval, by Encode or by Decode, on the odds table.
\* coder.intervals keeps, for every character of the table, the intervals
\* the calls have returned for it.
CalcIntervalCall ==
    /\ coder.text # <<>>
    /\ \E targetChar \in Chars, order \in RangeOrders(coder.odds) :
           LET interval == CalcInterval(coder.odds, order, targetChar)
           IN  /\ coder' =
                      [coder EXCEPT !.intervals =
                          [char \in DOMAIN @ |->
                              IF char = targetChar
                              THEN @[char] \cup {interval}
                              ELSE @[char]]]
               /\ last' = [op |-> "calcInterval", key |-> targetChar,
                           err |-> "none", low |-> interval[1],
                           high |-> interval[2]]
    /\ UNCHANGED <<storeVars, metricVars, purgeVars, eventVars, categoryVars,
                   importer, writers>>

----------------------------------------------------------------------------
(* Specifications. *)

\* No file exists yet (CreateOrOpenFile creates each one empty).
EmptyStore(track) ==
    /\ dataFile = <<>>
    /\ indexFile = <<>>
    /\ slotFile = <<>>
    /\ metricsFile = <<>>
    /\ hist = [track |-> track, inserted |-> <<>>, removed |-> {},
               appended |-> {}]
    /\ calls = [a \in Actions |-> 0]
    /\ last = [op |-> "none", key |-> 0, err |-> "none"]
    /\ tempDataFile = <<>>
    /\ tempIndexFile = <<>>
    /\ pc = IdlePC
    /\ eventDataFile = <<>>
    /\ eventIndexFile = <<>>
    /\ categoryDataFile = <<>>
    /\ categoryIndexFile = <<>>
    /\ importer = IdleImporter
    /\ writers = NoWriters
    /\ coder = NoCoder

Init == EmptyStore(FALSE)

\* The same store, with the history of inserts and soft deletes recorded.
InitTracked == EmptyStore(TRUE)

\* Insert, soft delete and physical removal.
Next ==
    \/ Insert
    \/ SoftDelete
    \/ Purge

Spec == Init /\ [][Next]_vars

\* The same operations, with the history recorded.
SpecTracked == InitTracked /\ [][Next]_vars

\* Insert and soft delete only.
NextSoft ==
    \/ Insert
    \/ SoftDelete

SpecSoft == InitTracked /\ [][NextSoft]_vars

\* Insert and physical removal only.
NextPurge ==
    \/ Insert
    \/ Purge

SpecPurge == Init /\ [][NextPurge]_vars

\* The metrics counter and the ratio of two counts.
NextMetrics ==
    \/ IncrementMetric
    \/ MetricRatio

SpecMetrics == Init /\ [][NextMetrics]_vars

\* Inserts, some of them with a failing I/O step.
NextFaults ==
    \/ Insert
    \/ InsertUnderFault

SpecFaults == Init /\ [][NextFaults]_vars

\* The rows inserted where only the keys matter.
CrashRows == {row \in Rows : row.Price = MaxPrice}

\* Inserts, and physical removals that a crash may interrupt.
NextCrash ==
    \/ (pc.stage = "idle" /\ \E row \in CrashRows : InsertRow(row))
    \/ \E id \in Keys : PurgeSearch(id)
    \/ PurgeCopyData
    \/ PurgeRemoveData
    \/ PurgeRenameData
    \/ PurgeCopyIndex
    \/ PurgeRemoveIndex
    \/ PurgeRenameIndex
    \/ Crash

SpecCrash == Init /\ [][NextCrash]_vars

\* The prices of the scenario: three products of prices 10, 50 and 30.
ScenarioPrices == {10, 30, 50}

ScenarioRows ==
    {[Price |-> p, Brand |-> "acme", CategoryID |-> 0] : p \in ScenarioPrices}

\* The products UpdateMostExpensiveProductIndex is called with on its own:
\* active and inactive ones, of a key no insert assigns.
Candidates ==
    {[ID |-> MaxKey + 1, CategoryID |-> 0, Brand |-> "bosch", Price |-> p,
      Active |-> a] : p \in ScenarioPrices, a \in BOOLEAN}

\* A call of UpdateMostExpensiveProductIndex outside an insert; from then
\* on the history of inserts no longer tells what the slot holds.
UpdateSlot(candidate) ==
    /\ slotFile' = UpdateMostExpensiveProductIndex(slotFile, candidate)
    /\ hist' = [hist EXCEPT !.track = FALSE]
    /\ last' = [op |-> "maybeUpdate", key |-> candidate.ID, err |-> "none",
                candidate |-> candidate]
    /\ UNCHANGED <<dataFile, indexFile, metricVars, purgeVars, otherVars>>

\* Inserts of the scenario's prices, soft deletes, and calls of
\* UpdateMostExpensiveProductIndex with any candidate.
NextSlot ==
    \/ \E row \in ScenarioRows : InsertRow(row)
    \/ SoftDelete
    \/ \E candidate \in Candidates : UpdateSlot(candidate)

SpecSlot == InitTracked /\ [][NextSlot]_vars

\* Two AddProduct calls about to start on an empty store.
InitWriters ==
    /\ dataFile = <<>>
    /\ indexFile = <<>>
    /\ slotFile = <<>>
    /\ metricsFile = <<>>
    /\ hist = [track |-> FALSE, inserted |-> <<>>, removed |-> {},
               appended |-> {}]
    /\ calls = [a \in Actions |-> 0]
    /\ last = [op |-> "none", key |-> 0, err |-> "none"]
    /\ tempDataFile = <<>>
    /\ tempIndexFile = <<>>
    /\ pc = IdlePC
    /\ eventDataFile = <<>>
    /\ eventIndexFile = <<>>
    /\ categoryDataFile = <<>>
    /\ categoryIndexFile = <<>>
    /\ importer = IdleImporter
    /\ writers = [w \in Writers |-> FreshWriter]
    /\ coder = NoCoder

\* Inserts one after the other before the two calls start, then the two
\* calls' steps in any interleaving.
NextWriters ==
    \/ /\ \A w \in Writers : writers[w].stage = "start"
       /\ \E row \in CrashRows : InsertRow(row)
    \/ \E w \in Writers : WriterBuild(w)
    \/ \E w \in Writers : WriterSeekData(w)
    \/ \E w \in Writers : WriterWriteData(w)
    \/ \E w \in Writers : WriterSeekIndex(w)
    \/ \E w \in Writers : WriterWriteIndex(w)
    \/ \E w \in Writers : WriterReadSlot(w)
    \/ \E w \in Writers : WriterUpdateSlot(w)

SpecWriters == InitWriters /\ [][NextWriters]_vars

\* AddEvent calls.
NextEvents ==
    \/ InsertEvent

SpecEvents == Init /\ [][NextEvents]_vars

\* ImportarCSV over every sequence of up to MaxRows rows.
NextImport ==
    \/ ReadRow

SpecImport == Init /\ [][NextImport]_vars

\* The coder: the text is read, then CalcInterval is called.
NextCoder ==
    \/ ReadText
    \/ CalcIntervalCall

SpecCoder == Init /\ [][NextCoder]_vars

----------------------------------------------------------------------------
(* Index searches over arbitrary ascending index files. *)

\* Largest key of the index files the search is tried on.
MaxIndexKey == 4

RECURSIVE AscendingIndex(_, _)
\* The index file holding the keys of S in ascending order; the entry of
\* key k carries the offset (k + shift) * PRODUCT_SIZE.
AscendingIndex(S, shift) ==
    IF S = {}
    THEN <<>>
    ELSE LET k == CHOOSE x \in S : \A y \in S : x <= y
         IN  <<[ID |-> k, Offset |-> (k + shift) * PRODUCT_SIZE]>>
                 \o AscendingIndex(S \ {k}, shift)

InitSearch ==
    /\ dataFile = <<>>
    /\ indexFile \in {AscendingIndex(S, shift) :
                         S \in SUBSET (0..MaxIndexKey), shift \in {0, 1}}
    /\ slotFile = <<>>
    /\ metricsFile = <<>>
    /\ hist = [track |-> FALSE, inserted |-> <<>>, removed |-> {},
               appended |-> {}]
    /\ calls = [a \in Actions |-> 0]
    /\ last = [op |-> "none", key |-> 0, err |-> "none"]
    /\ tempDataFile = <<>>
    /\ tempIndexFile = <<>>
    /\ pc = IdlePC
    /\ eventDataFile = <<>>
    /\ eventIndexFile = <<>>
    /\ categoryDataFile = <<>>
    /\ categoryIndexFile = <<>>
    /\ importer = IdleImporter
    /\ writers = NoWriters
    /\ coder = NoCoder

\* A call of BinarySearchOnDisk; the files are only read.
Find ==
    \E k \in 0..(MaxIndexKey + 1) :
        /\ last' = [op |-> "find", key |-> k, err |-> "none",
                    ret |-> BinarySearchOnDisk(indexFile, k)]
        /\ UNCHANGED <<storeVars, metricVars, purgeVars, otherVars>>

NextSearch ==
    \/ Find

SpecSearch == InitSearch /\ [][NextSearch]_vars

----------------------------------------------------------------------------
(* Definitions the properties are stated with. *)

\* lookup(k): BinarySearchOnDisk, then ReadFromDataFile at the offset found.
Lookup(k) ==
    LET s == BinarySearchOnDisk(indexFile, k)
        r == ReadFromDataFile(dataFile, s.offset)
    IN  [found |-> s.found,
         fatal |-> s.fatal \/ (s.found /\ r.fatal),
         record |-> r.data]

\* What a front-to-back scan of the index finds for key k.
LinearScan(index, k) ==
    LET hits == {i \in 1..Len(index) : index[i].ID = k}
    IN  IF hits = {}
        THEN [offset |-> 0, found |-> FALSE]
        ELSE [offset |-> index[CHOOSE i \in hits : \A j \in hits : i <= j].Offset,
              found |-> TRUE]

StrictlyAscending(index) ==
    \A i \in 1..(Len(index) - 1) : index[i].ID < index[i + 1].ID

ActivePrices(data) == {data[i].Price : i \in {j \in 1..Len(data) : data[j].Active}}

MaxOf(S) == CHOOSE p \in S : \A q \in S : p >= q

----------------------------------------------------------------------------
(* Properties. *)

\* C1: after any sequence of inserts and soft deletes, lookup(k) of every
\* inserted key k finds the record with ID k, every field as inserted,
\* except that Active is false exactly when k has been soft-deleted.
C1_LookupReturnsInserted ==
    \A k \in DOMAIN hist.inserted :
        LET l == Lookup(k)
        IN  /\ l.found
            /\ ~l.fatal
            /\ l.record.ID = k
            /\ l.record = [hist.inserted[k] EXCEPT !.Active = (k \notin hist.removed)]

\* C1 witness: three keys inserted, the middle one soft-deleted, the others not.
C1_Witness ==
    /\ DOMAIN hist.inserted = {0, 1, 2}
    /\ hist.removed = {1}
    /\ last.op = "softDelete"

\* C2: after any sequence of inserts and purges, every index entry points
\* at a record-aligned position inside the data file and the record there
\* has the entry's key.
C2_IndexPointsAtOwnRecord ==
    \A i \in 1..Len(indexFile) :
        LET e == indexFile[i]
            r == ReadRecordAt(dataFile, PRODUCT_SIZE, e.Offset)
        IN  /\ e.Offset % PRODUCT_SIZE = 0
            /\ ~r.err
            /\ r.data.ID = e.ID

\* C3: in every state reachable by inserts, soft deletes and purges the
\* index file is strictly ascending in key.
C3_IndexStrictlyAscending == StrictlyAscending(indexFile)

\* C4: on every strictly ascending index file BinarySearchOnDisk returns
\* what a front-to-back linear scan returns, and on the empty file it
\* returns (0, false) without reading an entry and without error.
C4_BinarySearchIsLinearScan ==
    last.op = "find" =>
        LET want == LinearScan(indexFile, last.key)
        IN  /\ StrictlyAscending(indexFile)
            /\ ~last.ret.fatal
            /\ last.ret.found = want.found
            /\ last.ret.offset = want.offset
            /\ (Len(indexFile) = 0 =>
                    last.ret = [offset |-> 0, found |-> FALSE, reads |-> 0,
                                fatal |-> FALSE])

\* C4 witness: a search that finds the last of several entries after
\* reading more than one.
C4_Witness ==
    /\ last.op = "find"
    /\ Len(indexFile) >= 3
    /\ last.ret.found
    /\ last.key = indexFile[Len(indexFile)].ID
    /\ last.ret.reads >= 2

\* C5: after a successful purge(k), lookup(k) is not-found, the index has
\* exactly one entry fewer, the remaining entries are the previous ones
\* without the entry of k, in their order, and the index is ascending.
C5_PurgeRemovesOneEntry ==
    [][(last'.op = "purge" /\ last'.err = "none") =>
          /\ ~BinarySearchOnDisk(indexFile', last'.key).found
          /\ Len(indexFile') = Len(indexFile) - 1
          /\ indexFile' = SelectSeq(indexFile, LAMBDA e : e.ID # last'.key)
          /\ StrictlyAscending(indexFile')]_vars

\* C6: after any sequence of inserts and soft deletes,
\* currentMaximum() returns a record whose price is the maximum price of
\* the active records, and the zero-value record when none is active.
C6_MaximumAfterAnySequence ==
    LET m == SearchMostExpensiveProduct(slotFile)
        prices == ActivePrices(dataFile)
    IN  /\ ~m.fatal
        /\ prices # {} => m.product.Price = MaxOf(prices)
        /\ prices = {} => m.product = ZeroProduct

\* C7: in every state reachable by inserts, soft deletes and purges in
\* which an active record exists, the price in the slot is greater than or
\* equal to the price of every active record.
C7_SlotBoundsActivePrices ==
    ActivePrices(dataFile) # {} =>
        /\ Len(slotFile) >= 1
        /\ \A p \in ActivePrices(dataFile) : slotFile[1].Price >= p

\* C7 witness: after a purge, an active record of non-zero price remains
\* beside an inactive one.
C7_Witness ==
    /\ last.op = "purge"
    /\ last.err = "none"
    /\ \E i, j \in 1..Len(dataFile) :
           /\ dataFile[i].Active
           /\ dataFile[i].Price > 0
           /\ ~dataFile[j].Active

\* query(c) as main makes it: log.Fatal on the error of
\* SearchActionMetrics, else the count of the entry returned.
Query(file, c) ==
    LET r == SearchActionMetrics(file, c)
    IN  IF r.err
        THEN [fatal |-> TRUE]
        ELSE [fatal |-> FALSE, count |-> r.metrics.NumberOfOcurrences]

\* The count a query has given, 0 where it gave none.
CountOf(q) == IF q.fatal THEN 0 ELSE q.count

\* C8: whatever the mix of increments, query(c) is the number of
\* StoreActionMetrics calls made for c, and 0 for an action never
\* incremented.
C8_QueryCountsCalls ==
    \A c \in Actions :
        Query(metricsFile, c) = [fatal |-> FALSE, count |-> calls[c]]

\* C9: the metrics file never holds two entries of one action; an
\* increment of an action present rewrites its entry in place and appends
\* nothing, an increment of an absent action appends one entry of count 1.
C9_OneEntryPerAction ==
    [][/\ \A i, j \in 1..Len(metricsFile') :
              metricsFile'[i].Action = metricsFile'[j].Action => i = j
       /\ last'.op = "increment" =>
              LET hits == {i \in 1..Len(metricsFile) :
                              metricsFile[i].Action = last'.key}
              IN  IF hits # {}
                  THEN metricsFile' =
                           [i \in 1..Len(metricsFile) |->
                               IF i \in hits
                               THEN [metricsFile[i] EXCEPT !.NumberOfOcurrences = @ + 1]
                               ELSE metricsFile[i]]
                  ELSE metricsFile' =
                           Append(metricsFile,
                                  [Action |-> last'.key, NumberOfOcurrences |-> 1])
      ]_vars

\* C9 witness: an entry that is not the last of the file has been
\* incremented in place.
C9_Witness ==
    /\ last.op = "increment"
    /\ Len(metricsFile) >= 3
    /\ metricsFile[2].Action = last.key
    /\ metricsFile[2].NumberOfOcurrences >= 2

\* C10 as stated: metricRatio(part, total) is the float64
\* query(part) * 100 / query(total), 0 when query(total) is 0, and the
\* call leaves the metrics file as it was.
C10_RatioIsHundredfoldQuotient ==
    [][last'.op = "ratio" =>
          LET p == CountOf(Query(metricsFile, last'.key))
              t == CountOf(Query(metricsFile, last'.total))
          IN  /\ metricsFile' = metricsFile
              /\ t = 0 => last'.ret = F64Zero
              /\ t # 0 => last'.ret = F64DivNat(p * 100, t)
      ]_vars

\* C10 amended: metricRatio(part, total) is the float64 product by 100 of
\* the float64 quotient query(part) / query(total), which is the float64
\* query(part) * 100 / query(total) or one of its two neighbours; it is 0
\* when query(total) is 0; the call leaves the metrics file as it was;
\* 1 Purchase against 5 View gives exactly 20.
C10_RatioIsQuotientTimesHundred ==
    [][last'.op = "ratio" =>
          LET p == CountOf(Query(metricsFile, last'.key))
              t == CountOf(Query(metricsFile, last'.total))
              q == F64DivNat(p * 100, t)
          IN  /\ metricsFile' = metricsFile
              /\ t = 0 => last'.ret = F64Zero
              /\ (t # 0 /\ p = 0) => last'.ret = F64Zero
              /\ (t # 0 /\ p # 0) =>
                     /\ last'.ret = F64TimesNat(F64DivNat(p, t), 100)
                     /\ last'.ret \in {q, F64Succ(q), F64Pred(q)}
              /\ (p = 1 /\ t = 5) => last'.ret = F64FromNat(20)
      ]_vars

\* C10 witness: the ratio of 1 Purchase to 5 View has been computed as 20.
C10_Witness ==
    /\ last.op = "ratio"
    /\ last.key = PURCHASE
    /\ last.total = VIEW
    /\ calls[PURCHASE] = 1
    /\ calls[VIEW] = 5
    /\ last.ret = F64FromNat(20)

\* C11: softDelete(k) never changes the index file; when k is absent from
\* the index it returns not-found and leaves the data file and the slot as
\* they were; when k is present, in a store built by inserts and soft
\* deletes, it succeeds and the data file differs at most in the Active
\* flag of the record with ID k, which is false afterwards.
C11_SoftDeleteFrame ==
    [][last'.op = "softDelete" =>
          LET k == last'.key
          IN  /\ indexFile' = indexFile
              /\ IF ~LinearScan(indexFile, k).found
                 THEN /\ last'.err = "notfound"
                      /\ dataFile' = dataFile
                      /\ slotFile' = slotFile
                 ELSE /\ last'.err = "none"
                      /\ \E i \in 1..Len(dataFile) : dataFile[i].ID = k
                      /\ dataFile' =
                             [i \in 1..Len(dataFile) |->
                                 IF dataFile[i].ID = k
                                 THEN [dataFile[i] EXCEPT !.Active = FALSE]
                                 ELSE dataFile[i]]
      ]_vars

\* C11 witness: of three records the middle one has just been soft-deleted
\* and the other two are still active.
C11_Witness ==
    /\ last.op = "softDelete"
    /\ last.err = "none"
    /\ last.key = 1
    /\ Len(dataFile) = 3
    /\ dataFile[1].Active
    /\ ~dataFile[2].Active
    /\ dataFile[2].ID = 1
    /\ dataFile[3].Active

\* The IDs of the records in a data file.
IDsOf(data) == {data[i].ID : i \in 1..Len(data)}

\* C12: in every state reachable by inserts, soft deletes and purges, the
\* key the next insert assigns is 0 when the data file is empty and
\* otherwise 1 plus the largest ID in the data file.
C12_NextKeyIsMaxPlusOne ==
    NextProductID(dataFile) =
        IF Len(dataFile) = 0 THEN 0 ELSE 1 + MaxOf(IDsOf(dataFile))

\* C12 witness: after a purge the data file holds two records and no longer
\* starts at key 0.
C12_Witness ==
    /\ last.op = "purge"
    /\ last.err = "none"
    /\ Len(dataFile) = 2
    /\ dataFile[1].ID # 0

\* C13: in every behaviour no step turns the Active flag of a record in
\* the data file from false to true, and softDelete(k) of a key whose
\* record is already inactive returns success, changes no file and does
\* not recompute the slot.
C13_DeletionIsOneWay ==
    [][/\ \A i \in 1..Len(dataFile), j \in 1..Len(dataFile') :
              (dataFile[i].ID = dataFile'[j].ID /\ ~dataFile[i].Active)
                  => ~dataFile'[j].Active
       /\ (/\ last'.op = "softDelete"
           /\ \E i \in 1..Len(dataFile) :
                  dataFile[i].ID = last'.key /\ ~dataFile[i].Active)
              => /\ last'.err = "none"
                 /\ ~last'.recalculated
                 /\ dataFile' = dataFile
                 /\ indexFile' = indexFile
                 /\ slotFile' = slotFile
      ]_vars

\* C14: when the data append or the index append of an insert fails, no
\* later step of that insert runs: the slot is left as it was whenever the
\* record has not been written to both the data file and the index file.
C14_FailedInsertStopsThere ==
    [][(/\ last'.op = "insert"
        /\ ~(/\ Len(dataFile') = Len(dataFile) + 1
             /\ Len(indexFile') = Len(indexFile) + 1))
           => /\ last'.err # "none"
              /\ slotFile' = slotFile
      ]_vars

\* C15: when a crash interrupts purge(k) before a temporary file has been
\* renamed onto its original, the data file and the index file hold
\* exactly what they held before the purge; and a purge(k) run again from
\* that state ends with the data and index contents of an uninterrupted
\* purge(k).
C15_CrashBeforeRenameIsSafe ==
    [][/\ (last'.op = "crash" /\ last'.stage \in BeforeRename) =>
              /\ dataFile' = last'.pre.data
              /\ indexFile' = last'.pre.index
       /\ (last'.op = "purge" /\ last'.err = "none" /\ pc.retry) =>
              LET f == RemoveByIDFiles(pc.pre.index, pc.pre.data, pc.key)
              IN  /\ dataFile' = f.data
                  /\ indexFile' = f.index
      ]_vars

\* C16: in every state reachable by inserts, soft deletes and purges, a
\* successful purge(k) leaves the data file with exactly one record fewer,
\* with no record of ID k, and with every other record unchanged and in its
\* previous order.
C16_PurgeRemovesRecordOfKey ==
    [][(last'.op = "purge" /\ last'.err = "none") =>
          /\ Len(dataFile') = Len(dataFile) - 1
          /\ \A j \in 1..Len(dataFile') : dataFile'[j].ID # last'.key
          /\ dataFile' = SelectSeq(dataFile, LAMBDA r : r.ID # last'.key)
      ]_vars

\* C17: after a successful softDelete(k) or purge(k) of the record the slot
\* holds as active, the slot no longer holds k as active: it holds what a
\* full scan of the remaining records computes.
C17_DeletingHolderRefreshesSlot ==
    [][(/\ last'.op \in {"softDelete", "purge"}
        /\ last'.err = "none"
        /\ Len(slotFile) = 1
        /\ slotFile[1].ID = last'.key
        /\ slotFile[1].Active)
           => /\ slotFile' = <<RecalculateScan(dataFile', 1, ZeroProduct)>>
              /\ ~(slotFile'[1].ID = last'.key /\ slotFile'[1].Active)
      ]_vars

\* The first record, in file order, among the active records of maximum
\* price; the zero-value record when no record is active.
FirstMaxActive(data) ==
    LET active == {i \in 1..Len(data) : data[i].Active}
        best == {i \in active : \A j \in active : data[i].Price >= data[j].Price}
    IN  IF active = {}
        THEN ZeroProduct
        ELSE data[CHOOSE i \in best : \A j \in best : i <= j]

\* C18: a recomputation overwrites the slot with the first record, in data
\* file order, among the active records of maximum price, and with the
\* zero-value sentinel only when the data file holds no active record.
C18_RecomputePicksFirstMaximum ==
    [][(last'.op = "softDelete" /\ last'.recalculated) =>
          slotFile' = <<FirstMaxActive(dataFile')>>
      ]_vars

\* C20: an insert writes the record at the offset that was the data file's
\* length, grows the data file by that one record and the index by the one
\* entry (key, that offset), and changes no earlier record or entry.
C20_InsertIsAppendOnly ==
    [][last'.op = "insert" =>
          LET offset == Len(dataFile) * PRODUCT_SIZE
              written == ReadRecordAt(dataFile', PRODUCT_SIZE, offset)
          IN  /\ Len(dataFile') = Len(dataFile) + 1
              /\ SubSeq(dataFile', 1, Len(dataFile)) = dataFile
              /\ ~written.err
              /\ written.data.ID = last'.key
              /\ written.data.Active
              /\ indexFile' = Append(indexFile, [ID |-> last'.key, Offset |-> offset])
      ]_vars

\* C20 witness: an insert has appended to files that a purge had shortened
\* before.
C20_Witness ==
    /\ last.op = "insert"
    /\ Len(dataFile) >= 2
    /\ Len(indexFile) >= 2
    /\ dataFile[1].ID # 0
    /\ indexFile[Len(indexFile)].Offset = (Len(dataFile) - 1) * PRODUCT_SIZE

\* The earliest-inserted record of maximum price among the records inserted.
EarliestMaximum(inserted) ==
    LET best == {k \in DOMAIN inserted :
                    \A j \in DOMAIN inserted : inserted[k].Price >= inserted[j].Price}
    IN  inserted[CHOOSE k \in best : \A j \in best : k <= j]

\* What C19 says of a state: after inserts only, the slot holds the
\* earliest-inserted record of maximum price; keys 0, 1, 2 of prices 10, 50,
\* 30 give key 1, and key 2 once key 1 has been soft-deleted.
C19_SlotAfterInserts ==
    (hist.track /\ DOMAIN hist.inserted # {}) =>
        LET scenario == /\ DOMAIN hist.inserted = {0, 1, 2}
                        /\ hist.inserted[0].Price = 10
                        /\ hist.inserted[1].Price = 50
                        /\ hist.inserted[2].Price = 30
        IN  /\ hist.removed = {} => slotFile = <<EarliestMaximum(hist.inserted)>>
            /\ (scenario /\ hist.removed = {}) => slotFile[1].ID = 1
            /\ (scenario /\ hist.removed = {1}) => slotFile = <<hist.inserted[2]>>

\* C19: UpdateMostExpensiveProductIndex overwrites the slot with the
\* candidate exactly when the candidate is active and the slot is empty or
\* the candidate's price is strictly greater than the slot's; otherwise it
\* leaves the slot as it was.  So after inserts only the slot holds the
\* earliest-inserted record of maximum price (keys 0, 1, 2 of prices 10,
\* 50, 30: key 1, and key 2 after softDelete(1)).
C19_MaybeUpdateOverwritesWhenGreater ==
    [][/\ last'.op \in {"insert", "maybeUpdate"} =>
              LET candidate == IF last'.op = "insert"
                               THEN dataFile'[Len(dataFile')]
                               ELSE last'.candidate
              IN  slotFile' =
                      IF /\ candidate.Active
                         /\ \/ Len(slotFile) = 0
                            \/ candidate.Price > slotFile[1].Price
                      THEN <<candidate>>
                      ELSE slotFile
       /\ C19_SlotAfterInserts'
      ]_vars

\* C19 witness: keys 0, 1, 2 were inserted with prices 10, 50, 30, key 1
\* has just been soft-deleted and the slot holds key 2.
C19_Witness ==
    /\ hist.track
    /\ DOMAIN hist.inserted = {0, 1, 2}
    /\ hist.inserted[0].Price = 10
    /\ hist.inserted[1].Price = 50
    /\ hist.inserted[2].Price = 30
    /\ hist.removed = {1}
    /\ last.op = "softDelete"
    /\ last.key = 1
    /\ last.recalculated
    /\ slotFile[1].ID = 2
    /\ slotFile[1].Price = 30

\* C21: in every behaviour of inserts, soft deletes and purges, the key an
\* insert appends to the index is strictly greater than every key that was
\* ever appended before, purged ones included.
C21_KeysNeverReused ==
    [][last'.op = "insert" => \A k \in hist.appended : last'.key > k]_vars

\* C22: an insert whose key is not strictly greater than the last key in
\* the index file is reported as an error and leaves the index file and
\* the data file as they were.
C22_OrderingViolationReported ==
    [][(/\ last'.op = "insert"
        /\ Len(indexFile) > 0
        /\ last'.key <= indexFile[Len(indexFile)].ID)
           => /\ last'.err # "none"
              /\ indexFile' = indexFile
              /\ dataFile' = dataFile
      ]_vars

\* Both concurrent calls have returned.
BothDone == \A w \in Writers : writers[w].stage = "done"

\* The number of records the store held before the two calls: their keys
\* were 0 .. n-1, so n is the smaller of the two keys built.
RecordsBefore ==
    IF writers[1].product.ID <= writers[2].product.ID
    THEN writers[1].product.ID
    ELSE writers[2].product.ID

\* C23: with no lock, whenever two concurrent inserts have built the same
\* key or have sought the same data offset, the index is afterwards not
\* strictly ascending, or one record has overwritten the other, or one
\* index entry the other; and such interleavings exist.
C23_UnlockedInsertsCorrupt ==
    (/\ BothDone
     /\ \/ writers[1].product.ID = writers[2].product.ID
        \/ writers[1].offset = writers[2].offset)
        => \/ ~StrictlyAscending(indexFile)
           \/ Len(dataFile) < RecordsBefore + 2
           \/ Len(indexFile) < RecordsBefore + 2

\* C23 witness: both calls built the same key and wrote at the same data
\* offset: one record is lost and the index holds the key twice.
C23_Witness ==
    /\ BothDone
    /\ writers[1].product.ID = writers[2].product.ID
    /\ writers[1].offset = writers[2].offset
    /\ writers[1].product # writers[2].product
    /\ Len(dataFile) = RecordsBefore + 1
    /\ Len(indexFile) = RecordsBefore + 2
    /\ ~StrictlyAscending(indexFile)

RECURSIVE SumOfCounts(_)
\* The sum of the counts of the entries of a metrics file.
SumOfCounts(file) ==
    IF file = <<>>
    THEN 0
    ELSE file[1].NumberOfOcurrences + SumOfCounts(Tail(file))

\* C24: after any sequence of AddEvent calls the counts in the metrics
\* file add up to the number of events in the event data file, and the
\* count stored for each action is the number of events with that action.
C24_MetricsCountEvents ==
    /\ SumOfCounts(metricsFile) = Len(eventDataFile)
    /\ \A a \in Actions :
           SumOfCounts(SelectSeq(metricsFile, LAMBDA m : m.Action = a)) =
               Cardinality({i \in 1..Len(eventDataFile) :
                               eventDataFile[i].EventAction = a})
    /\ \A i \in 1..Len(metricsFile) : metricsFile[i].Action \in Actions

\* C24 witness: four events of three actions, one of them of a type the
\* CSV names otherwise, have been appended.
C24_Witness ==
    /\ last.op = "addEvent"
    /\ Len(eventDataFile) = 4
    /\ Len(metricsFile) = 3
    /\ \E i \in 1..Len(metricsFile) : metricsFile[i].NumberOfOcurrences = 2

\* C25: in ImportarCSV every distinct CSV product id has exactly one
\* product record and every distinct CSV category id exactly one category
\* record, and the CategoryID of every product record is the ID of the
\* category record appended for the CSV category id of the row that
\* introduced the product, whether that row or an earlier one introduced
\* the category.
C25_ProductsCarryTheirCategory ==
    /\ Len(dataFile) = Cardinality(importer.addedProducts)
    /\ Len(categoryDataFile) = Cardinality(importer.addedCategorys)
    /\ \A q \in DOMAIN importer.productOf :
           \A i \in 1..Len(dataFile) :
               dataFile[i].ID = importer.productOf[q].ID =>
                   dataFile[i].CategoryID =
                       importer.categoryOf[importer.productOf[q].category]

\* C26: for a fixed odds table CalcInterval is deterministic and
\* partitions [0,1): all calls for a character return the same interval
\* whatever the order of enumeration, the intervals of distinct
\* characters are disjoint, and together they cover [0,1).
C26_IntervalsPartition ==
    LET intervals == coder.intervals
    IN  /\ \A char \in DOMAIN intervals : Cardinality(intervals[char]) <= 1
        /\ \A char, other \in DOMAIN intervals :
               char # other =>
                   \A x \in intervals[char], y \in intervals[other] :
                       x[2] <= y[1] \/ y[2] <= x[1]
        /\ (coder.text # <<>> /\ \A char \in DOMAIN intervals : intervals[char] # {}) =>
               \A point \in 0..(FloatOne - 1) :
                   \E char \in DOMAIN intervals :
                       \E x \in intervals[char] : x[1] <= point /\ point < x[2]

====
